---- MODULE Spec2Model ----
(***************************************************************************)
(* Model of convert_model.py: the conversion pipeline main() and the       *)
(* wrapped model's forward pass (mean_pooling + L2 normalisation).          *)
(*                                                                          *)
(* main() is a straight-line script.  Each library / file-system call is   *)
(* one step that either succeeds or raises; nothing in main() catches an   *)
(* exception, so a raise ends the run.  The file system (vocab.txt, the    *)
(* .mlpackage and the .mlmodelc bundle) outlives a run, so the model lets  *)
(* the script be run several times in a row over the same directory.       *)
(***************************************************************************)
EXTENDS Integers, Sequences, FiniteSets, TLC

(***************************************************************************)
(* Bounds of the model.                                                     *)
(***************************************************************************)
MaxRuns == 3        \* runs of the script over the same working directory
MaxVocab == 2       \* largest tokenizer vocabulary enumerated
FwdSeq == 2         \* sequence length of the forward-pass inputs enumerated
FwdHidden == 2      \* hidden size of the forward-pass inputs enumerated

(***************************************************************************)
(* Program constants.                                                       *)
(***************************************************************************)
MODEL_NAME == "sentence-transformers/all-MiniLM-L6-v2"
MAX_SEQ_LENGTH == 128
OUTPUT_MODEL_NAME == "MiniLM"
\* hidden size of the named checkpoint ("outputs a 384-dim sentence embedding")
HIDDEN_SIZE == 384
\* torch.clamp(..., min=1e-9): the minimum is 1 / CLAMP_MIN_DEN
CLAMP_MIN_DEN == 1000000000
\* torch.nn.functional.normalize's eps (1e-12).  Token-embedding components
\* are integers counted in units of eps, so eps itself is 1 unit.
EPS == 1

vocab_path == "vocab.txt"
mlpackage_path == "MiniLM.mlpackage"
compiled_path == "MiniLM.mlmodelc"

NL == "\n"
\* Tokens a tokenizer may hold.  A WordPiece vocabulary is itself read from a
\* one-token-per-line file, so no token contains a newline.
Tokens == {<<"a">>, <<"b">>, <<"a", "b">>}
Ids == 0..MaxVocab

NoFile == <<"ENOENT">>             \* vocab.txt does not exist
StaleFile == <<"b", NL, "b", NL>>  \* a vocab.txt left by something else
NoBundle == -1                     \* no MiniLM.mlmodelc directory
NoPackage == -1                    \* no MiniLM.mlpackage directory
ExitCodes == {0, 256}              \* os.system's return value
EmbValues == {-1, 0, 1}            \* token-embedding components, in units of eps
MaskValues == {0, 1}               \* attention-mask entries

VARIABLES
    run,            \* number of the current run of the script (1..MaxRuns)
    pc,             \* position of main() in the current run
    vocab,          \* the tokenizer's vocabulary at the hub: token -> id
    items,          \* tokenizer.get_vocab().items() in this run's iteration order
    vocabFile,      \* contents of vocab.txt (sequence of characters) or NoFile
    wrapped,        \* WrappedModel: shape of the registered position_ids buffer
    graph,          \* exported_model: shapes the graph was traced with
    mlmodel,        \* ct.convert's result: declared inputs and outputs
    mlpackage,      \* run that saved MiniLM.mlpackage, or NoPackage
    bundle,         \* run whose compiler produced MiniLM.mlmodelc (0: earlier), or NoBundle
    exit_code,      \* os.system's return value in this run (-1 before)
    out,            \* lines printed in this run
    recommended,    \* the model path the final summary names ("" before)
    steps,          \* history: steps completed in this run, in order
    compilerCalls,  \* history: compiler invocations in this run
    failedAt,       \* history: the step that raised in this run ("none")
    prevExport,     \* history: vocab.txt as written by the last earlier run that exported
    prevItems,      \* history: the iteration order that run saw
    startBundle,    \* history: the bundle that was there when this run started
    input_ids,      \* forward(): argument
    attention_mask, \* forward(): argument
    last_hidden_state, \* forward(): the transformer's output
    fwd             \* forward(): result (pooled vector and squared norm of the output)

mainVars == <<run, pc, vocab, items, vocabFile, wrapped, graph, mlmodel, mlpackage,
              bundle, exit_code, out, recommended, steps, compilerCalls, failedAt,
              prevExport, prevItems, startBundle>>
fwdVars == <<input_ids, attention_mask, last_hidden_state, fwd>>
vars == <<mainVars, fwdVars>>

(***************************************************************************)
(* Helpers on sequences.                                                    *)
(***************************************************************************)
Range(s) == {s[i] : i \in DOMAIN s}

Perms(S) == {s \in [1..Cardinality(S) -> S] : \A i, j \in DOMAIN s : i # j => s[i] # s[j]}

\* the vocabularies enumerated: id-unique token -> id mappings
Vocabs ==
    UNION {{v \in [D -> Ids] : \A t, u \in D : t # u => v[t] # v[u]} :
           D \in {T \in SUBSET Tokens : Cardinality(T) <= MaxVocab}}

\* dict.items(): the (token, id) pairs of a mapping
DictItems(v) == {<<t, v[t]>> : t \in DOMAIN v}

(***************************************************************************)
(* Vocabulary export (lines 78-83).                                         *)
(***************************************************************************)
\* list.sort's insertion of x into an already sorted list, after every element
\* whose key is not greater (sorted() is stable)
InsertByKey(x, s) ==
    LET k == Cardinality({i \in DOMAIN s : s[i][2] <= x[2]})
    IN  SubSeq(s, 1, k) \o <<x>> \o SubSeq(s, k + 1, Len(s))

RECURSIVE SortedByKey(_)
\* sorted(vocab.items(), key=lambda x: x[1])
SortedByKey(its) ==
    IF its = <<>> THEN <<>>
    ELSE InsertByKey(its[Len(its)], SortedByKey(SubSeq(its, 1, Len(its) - 1)))

Unsorted(its) == its

sorted_vocab(its) == SortedByKey(its)

RECURSIVE WriteLines(_)
\* for token, _ in sorted_vocab: f.write(f"{token}\n")
WriteLines(sv) ==
    IF sv = <<>> THEN <<>>
    ELSE sv[1][1] \o <<NL>> \o WriteLines(Tail(sv))

OpenForAppend(old) == IF old = NoFile THEN <<>> ELSE old

\* open(vocab_path, "w") truncates: what was in the file is gone
OpenForWrite(old) == <<>>

\* contents of vocab.txt after the with-block
VocabFileContents(old, its) == OpenForWrite(old) \o WriteLines(sorted_vocab(its))

RECURSIVE SplitLines(_, _)
\* the lines of a text file: each "\n" ends a line
SplitLines(f, cur) ==
    IF f = <<>> THEN (IF cur = <<>> THEN <<>> ELSE <<cur>>)
    ELSE IF Head(f) = NL THEN <<cur>> \o SplitLines(Tail(f), <<>>)
    ELSE SplitLines(Tail(f), Append(cur, Head(f)))

Lines(f) == SplitLines(f, <<>>)

(***************************************************************************)
(* Tensor shapes (lines 48-55, 57-65, 86-108).                              *)
(***************************************************************************)
\* torch.arange(n): shape (n,)
ArangeShape(n) == <<n>>
\* tensor.unsqueeze(0)
Unsqueeze0(shape) == <<1>> \o shape
\* WrappedModel.__init__: register_buffer("position_ids", arange(max_seq_length).unsqueeze(0))
PositionIdsShape(max_seq_length) == Unsqueeze0(ArangeShape(max_seq_length))
\* torch.zeros(1, MAX_SEQ_LENGTH, dtype=torch.int32) / torch.ones(...)
DummyInput == [shape |-> <<1, MAX_SEQ_LENGTH>>, dtype |-> "int32"]
\* transformer(...).last_hidden_state: (batch, seq, hidden)
LastHiddenShape(ids_shape) == ids_shape \o <<HIDDEN_SIZE>>
SumDim2Shape(shape) == <<shape[1], shape[2]>>
\* torch.sum(x, 1): the sequence axis (dimension 1, the second) is reduced away
SumDim1Shape(shape) == <<shape[1]>> \o SubSeq(shape, 3, Len(shape))
\* mean_pooling's result; the division broadcasts two tensors of the same shape
MeanPoolingShape(hidden_shape) == SumDim1Shape(hidden_shape)
\* forward(): normalize keeps the shape
ForwardShape(ids_shape) == MeanPoolingShape(LastHiddenShape(ids_shape))
\* the inputs=[...] argument of ct.convert
DeclaredInputs ==
    <<[name |-> "input_ids", shape |-> <<1, MAX_SEQ_LENGTH>>, dtype |-> "int32"],
      [name |-> "attention_mask", shape |-> <<1, MAX_SEQ_LENGTH>>, dtype |-> "int32"]>>

NoShape == <<>>
NoGraph == [inputs |-> <<>>, position_ids |-> NoShape, output |-> NoShape]
NoMLModel == [inputs |-> <<>>, outputs |-> <<>>]

NoFwd == [called |-> FALSE, pooled |-> <<>>, den |-> 1, normSq |-> <<0, 1>>]

(***************************************************************************)
(* main() (lines 68-134).                                                   *)
(***************************************************************************)
StepOrder == <<"load", "export_vocab", "export_graph", "convert", "save", "rmtree",
               "compile", "summary">>

Completed(step) == \E i \in DOMAIN steps : steps[i] = step

\* an exception nobody catches: the interpreter ends the run at this step
Swallowed(step, next) ==
    /\ pc' = next
    /\ failedAt' = step
    /\ steps' = steps

Raise(step, next) ==
    /\ pc' = "aborted"
    /\ failedAt' = step
    /\ steps' = steps

\* the step returned normally
Return(step, next) ==
    /\ pc' = next
    /\ failedAt' = failedAt
    /\ steps' = Append(steps, step)

Init ==
    /\ run = 1
    /\ pc = "load"
    /\ vocab \in Vocabs
    /\ items = <<>>
    /\ vocabFile \in {NoFile, StaleFile}
    /\ wrapped = [position_ids |-> NoShape]
    /\ graph = NoGraph
    /\ mlmodel = NoMLModel
    /\ mlpackage \in {NoPackage, 0}
    /\ bundle \in {NoBundle, 0}
    /\ exit_code = -1
    /\ out = <<>>
    /\ recommended = ""
    /\ steps = <<>>
    /\ compilerCalls = 0
    /\ failedAt = "none"
    /\ prevExport = NoFile
    /\ prevItems = <<>>
    /\ startBundle = bundle
    /\ input_ids = <<>>
    /\ attention_mask = <<>>
    /\ last_hidden_state = <<>>
    /\ fwd = NoFwd

\* lines 69-75: from_pretrained twice, eval, WrappedModel(transformer, MAX_SEQ_LENGTH)
LoadModel ==
    /\ pc = "load"
    /\ out' = Append(out, "Loading model")
    /\ \/ /\ Return("load", "export_vocab")
          /\ wrapped' = [position_ids |-> PositionIdsShape(MAX_SEQ_LENGTH)]
       \/ /\ Raise("load", "export_vocab")
          /\ UNCHANGED wrapped
    /\ UNCHANGED <<run, vocab, items, vocabFile, graph, mlmodel, mlpackage, bundle,
                   exit_code, recommended, compilerCalls, prevExport, prevItems, startBundle,
                   fwdVars>>

\* lines 78-84: get_vocab, sorted, write vocab.txt, print
ExportVocab ==
    /\ pc = "export_vocab"
    /\ \E its \in Perms(DictItems(vocab)) :
          /\ items' = its
          /\ \/ /\ Return("export_vocab", "export_graph")
                /\ vocabFile' = VocabFileContents(vocabFile, its)
                /\ out' = Append(out, "Exported vocabulary")
             \/ \* open() raised: the file is as it was
                /\ Raise("export_vocab", "export_graph")
                /\ UNCHANGED <<vocabFile, out>>
             \/ \* a write raised: the file holds what was written so far
                /\ Raise("export_vocab", "export_graph")
                /\ \E k \in 0..Len(WriteLines(sorted_vocab(its))) :
                      /\ k < Len(WriteLines(sorted_vocab(its)))
                      /\ vocabFile' = SubSeq(VocabFileContents(vocabFile, its), 1,
                                             Len(VocabFileContents(vocabFile, its))
                                             - Len(WriteLines(sorted_vocab(its))) + k)
                /\ UNCHANGED out
    /\ UNCHANGED <<run, vocab, wrapped, graph, mlmodel, mlpackage, bundle, exit_code,
                   recommended, compilerCalls, prevExport, prevItems, startBundle,
                   fwdVars>>

\* lines 87-93: dummy inputs, torch.export.export, run_decompositions
ExportGraph ==
    /\ pc = "export_graph"
    /\ out' = Append(out, "Exporting model with torch.export...")
    /\ \/ /\ Return("export_graph", "convert")
          /\ graph' = [inputs |-> <<DummyInput, DummyInput>>,
                       position_ids |-> wrapped.position_ids,
                       output |-> ForwardShape(DummyInput.shape)]
       \/ /\ Raise("export_graph", "convert")
          /\ UNCHANGED graph
    /\ UNCHANGED <<run, vocab, items, vocabFile, wrapped, mlmodel, mlpackage, bundle,
                   exit_code, recommended, compilerCalls, prevExport, prevItems, startBundle,
                   fwdVars>>

\* lines 96-108: ct.convert
Convert ==
    /\ pc = "convert"
    /\ out' = Append(out, "Converting to Core ML...")
    /\ \/ /\ Return("convert", "save")
          /\ mlmodel' = [inputs |-> DeclaredInputs,
                         outputs |-> <<[name |-> "embeddings", shape |-> graph.output]>>]
       \/ /\ Raise("convert", "save")
          /\ UNCHANGED mlmodel
    /\ UNCHANGED <<run, vocab, items, vocabFile, wrapped, graph, mlpackage, bundle,
                   exit_code, recommended, compilerCalls, prevExport, prevItems, startBundle,
                   fwdVars>>

\* lines 111-113: mlmodel.save(mlpackage_path), print
SavePackage ==
    /\ pc = "save"
    /\ \/ /\ Return("save", "rmtree")
          /\ mlpackage' = run
          /\ out' = Append(out, "Saved Core ML model")
       \/ /\ Raise("save", "rmtree")
          /\ UNCHANGED <<mlpackage, out>>
    /\ UNCHANGED <<run, vocab, items, vocabFile, wrapped, graph, mlmodel, bundle,
                   exit_code, recommended, compilerCalls, prevExport, prevItems, startBundle,
                   fwdVars>>

\* os.path.exists(compiled_path)
Exists(b) == b # NoBundle

\* lines 116-119: print, if os.path.exists(compiled_path): shutil.rmtree(compiled_path)
KeepOldBundle ==
    /\ pc = "rmtree"
    /\ out' = Append(out, "Compiling to .mlmodelc ...")
    /\ Return("rmtree", "compile")
    /\ UNCHANGED bundle
    /\ UNCHANGED <<run, vocab, items, vocabFile, wrapped, graph, mlmodel, mlpackage,
                   exit_code, recommended, compilerCalls, prevExport, prevItems, startBundle,
                   fwdVars>>

RemoveOldBundle ==
    /\ pc = "rmtree"
    /\ out' = Append(out, "Compiling to .mlmodelc ...")
    /\ \/ /\ ~Exists(bundle)
          /\ Return("rmtree", "compile")
          /\ UNCHANGED bundle
       \/ /\ Exists(bundle)
          /\ Return("rmtree", "compile")
          /\ bundle' = NoBundle
       \/ \* rmtree raised (not a directory, no permission): nothing is removed
          /\ Exists(bundle)
          /\ Raise("rmtree", "compile")
          /\ UNCHANGED bundle
    /\ UNCHANGED <<run, vocab, items, vocabFile, wrapped, graph, mlmodel, mlpackage,
                   exit_code, recommended, compilerCalls, prevExport, prevItems, startBundle,
                   fwdVars>>

\* line 123: exit_code == 0 and os.path.exists(compiled_path)
CompiledOrElse(code, b) == code = 0 \/ Exists(b)

CompiledOk(code, b) == code = 0 /\ Exists(b)

\* lines 122-130: os.system(xcrun coremlcompiler compile ...), then one of two messages.
\* The compiler is another program: whatever its exit code, it may or may not
\* have left a MiniLM.mlmodelc directory.
CompileOrRaise ==
    /\ pc = "compile"
    /\ \E code \in ExitCodes, produced \in BOOLEAN :
          /\ exit_code' = code
          /\ bundle' = IF produced THEN run ELSE bundle
          /\ compilerCalls' = compilerCalls + 1
          /\ IF code # 0
             THEN Raise("compile", "summary") /\ out' = out
             ELSE /\ Return("compile", "summary")
                  /\ out' = Append(out, "Compiled model saved")
    /\ UNCHANGED <<run, vocab, items, vocabFile, wrapped, graph, mlmodel, mlpackage,
                   recommended, prevExport, prevItems, startBundle, fwdVars>>

CompileRetry ==
    /\ pc = "compile"
    /\ compilerCalls < 2
    /\ \E code \in ExitCodes, produced \in BOOLEAN :
          /\ exit_code' = code
          /\ bundle' = IF produced THEN run ELSE bundle
          /\ compilerCalls' = compilerCalls + 1
          /\ IF CompiledOk(code, bundle')
             THEN /\ out' = Append(out, "Compiled model saved")
                  /\ Return("compile", "summary")
             ELSE /\ out' = out
                  /\ pc' = "compile"
                  /\ UNCHANGED <<failedAt, steps>>
    /\ UNCHANGED <<run, vocab, items, vocabFile, wrapped, graph, mlmodel, mlpackage,
                   recommended, prevExport, prevItems, startBundle, fwdVars>>

Compile ==
    /\ pc = "compile"
    /\ \E code \in ExitCodes, produced \in BOOLEAN :
          /\ exit_code' = code
          /\ bundle' = IF produced THEN run ELSE bundle
          /\ compilerCalls' = compilerCalls + 1
          /\ out' = Append(out, IF CompiledOk(code, bundle')
                                THEN "Compiled model saved"
                                ELSE "Auto-compilation skipped")
    /\ Return("compile", "summary")
    /\ UNCHANGED <<run, vocab, items, vocabFile, wrapped, graph, mlmodel, mlpackage,
                   recommended, prevExport, prevItems, startBundle, fwdVars>>

\* line 133: compiled_path if os.path.exists(compiled_path) else mlpackage_path
SummaryPath(b) == IF Exists(b) THEN compiled_path ELSE mlpackage_path

\* lines 132-134: the final summary
Summary ==
    /\ pc = "summary"
    /\ recommended' = SummaryPath(bundle)
    /\ out' = Append(out, "Done")
    /\ Return("summary", "done")
    /\ UNCHANGED <<run, vocab, items, vocabFile, wrapped, graph, mlmodel, mlpackage,
                   bundle, exit_code, compilerCalls, prevExport, prevItems, startBundle,
                   fwdVars>>

\* the script is started again in the same directory (line 138)
StartRun ==
    /\ pc \in {"done", "aborted"}
    /\ run < MaxRuns
    /\ run' = run + 1
    /\ pc' = "load"
    /\ items' = <<>>
    /\ wrapped' = [position_ids |-> NoShape]
    /\ graph' = NoGraph
    /\ mlmodel' = NoMLModel
    /\ exit_code' = -1
    /\ out' = <<>>
    /\ recommended' = ""
    /\ steps' = <<>>
    /\ compilerCalls' = 0
    /\ failedAt' = "none"
    /\ prevExport' = IF Completed("export_vocab") THEN vocabFile ELSE prevExport
    /\ prevItems' = IF Completed("export_vocab") THEN items ELSE prevItems
    /\ startBundle' = bundle
    /\ UNCHANGED <<vocab, vocabFile, mlpackage, bundle, fwdVars>>

Next ==
    \/ LoadModel
    \/ ExportVocab
    \/ ExportGraph
    \/ Convert
    \/ SavePackage
    \/ RemoveOldBundle
    \/ Compile
    \/ Summary
    \/ StartRun

Spec == Init /\ [][Next]_vars

(***************************************************************************)
(* WrappedModel.forward and mean_pooling (lines 36-42, 57-65), batch of 1.  *)
(* Numbers are exact: a token-embedding component is an integer number of   *)
(* units of eps, a quotient is a numerator over a denominator.              *)
(***************************************************************************)
RECURSIVE SumTo(_, _)
\* f[1] + ... + f[n]
SumTo(f, n) == IF n = 0 THEN 0 ELSE f[n] + SumTo(f, n - 1)

Max(a, b) == IF a >= b THEN a ELSE b

\* attention_mask.unsqueeze(-1).expand(token_embeddings.size()).float()
input_mask_expanded(token_embeddings, mask) ==
    [i \in DOMAIN token_embeddings |-> [j \in DOMAIN token_embeddings[i] |-> mask[i]]]

\* torch.clamp(x, min=1e-9) of an integer-valued x, as <<numerator, denominator>>:
\* an integer is below 1e-9 exactly when it is below 1
Clamp(x) == IF x >= 1 THEN <<x, 1>> ELSE <<1, CLAMP_MIN_DEN>>

\* mean_pooling: sum(token_embeddings * mask, 1) / clamp(mask.sum(1), min=1e-9).
\* Every column of the expanded mask has the same sum, so the components of the
\* result share one denominator: [num |-> numerators, den |-> denominator]
mean_pooling(token_embeddings, mask) ==
    LET m == input_mask_expanded(token_embeddings, mask)
        n == Len(token_embeddings)
        hid == DOMAIN token_embeddings[1]
        summed == [j \in hid |-> SumTo([i \in 1..n |-> token_embeddings[i][j] * m[i][j]], n)]
        d == Clamp(SumTo([i \in 1..n |-> m[i][1]], n))
    IN  [num |-> [j \in hid |-> summed[j] * d[2]], den |-> d[1]]

\* squared L2 norm of a pooled vector, as <<numerator, denominator>>
NormSq(p) == <<SumTo([j \in DOMAIN p.num |-> p.num[j] * p.num[j]], Len(p.num)), p.den * p.den>>

NotNormalized(p) == NormSq(p)

\* torch.nn.functional.normalize(p, p=2, dim=1): p / max(||p||, eps).  The result's
\* components are irrational in general; what is kept is its squared L2 norm,
\* ||p||^2 / max(||p||^2, eps^2), as <<numerator, denominator>>
NormalizedNormSq(p) ==
    LET n == NormSq(p)
    IN  <<n[1], Max(n[1], EPS * EPS * n[2])>>

\* the inputs a caller may pass
InitForward ==
    /\ run = 1
    /\ pc = "forward"
    /\ vocab = <<>>
    /\ items = <<>>
    /\ vocabFile = NoFile
    /\ wrapped = [position_ids |-> <<1, FwdSeq>>]
    /\ graph = NoGraph
    /\ mlmodel = NoMLModel
    /\ mlpackage = NoPackage
    /\ bundle = NoBundle
    /\ exit_code = -1
    /\ out = <<>>
    /\ recommended = ""
    /\ steps = <<>>
    /\ compilerCalls = 0
    /\ failedAt = "none"
    /\ prevExport = NoFile
    /\ prevItems = <<>>
    /\ startBundle = bundle
    /\ input_ids \in {[i \in 1..FwdSeq |-> 0], [i \in 1..FwdSeq |-> i]}
    /\ attention_mask \in [1..FwdSeq -> MaskValues]
    /\ last_hidden_state = <<>>
    /\ fwd = NoFwd

\* lines 57-65.  The transformer is a library function of the checkpoint's
\* weights: any last_hidden_state of the right shape may come back.
Forward ==
    /\ pc = "forward"
    /\ ~fwd.called
    /\ \E h \in [1..FwdSeq -> [1..FwdHidden -> EmbValues]] :
          LET pooled == mean_pooling(h, attention_mask)
          IN  /\ last_hidden_state' = h
              /\ fwd' = [called |-> TRUE, pooled |-> pooled.num, den |-> pooled.den,
                         normSq |-> NormalizedNormSq(pooled)]
    /\ UNCHANGED <<mainVars, input_ids, attention_mask>>

NextForward == Forward

SpecForward == InitForward /\ [][NextForward]_vars

(***************************************************************************)
(* Properties.                                                              *)
(***************************************************************************)
Printed(msg) == \E i \in DOMAIN out : out[i] = msg

IsPrefix(s, t) == Len(s) <= Len(t) /\ s = SubSeq(t, 1, Len(s))

\* a step of main() in the current run
AnyStep ==
    \/ LoadModel \/ ExportVocab \/ ExportGraph \/ Convert \/ SavePackage
    \/ RemoveOldBundle \/ Compile \/ Summary

\* C1: once the vocabulary export step of a run has completed, vocab.txt has
\* exactly as many lines as the tokenizer's vocabulary has tokens, every line is
\* one token of the vocabulary, and the lines are in strictly ascending id order.
C1_VocabFileSortedById ==
    Completed("export_vocab") =>
        LET ls == Lines(vocabFile)
        IN  /\ vocabFile # NoFile
            /\ Len(ls) = Cardinality(DOMAIN vocab)
            /\ \A i \in DOMAIN ls : ls[i] \in DOMAIN vocab
            /\ \A i, j \in DOMAIN ls : i < j => vocab[ls[i]] < vocab[ls[j]]

\* a run exported a full-size vocabulary that get_vocab returned out of id
\* order, over a file that was already there
C1_Witness ==
    /\ Completed("export_vocab")
    /\ Cardinality(DOMAIN vocab) = MaxVocab
    /\ items # SortedByKey(items)
    /\ run = 1
    /\ prevExport = NoFile
    /\ Len(Lines(vocabFile)) = MaxVocab

\* C2: once the compiler has been invoked, whatever its exit code and whether or
\* not the bundle exists, the run is not aborted: it is at the final summary,
\* which can run, or has printed it ("Done" is the last line printed).
C2_CompileFailureTolerated ==
    compilerCalls >= 1 =>
        /\ pc \in {"summary", "done"}
        /\ failedAt = "none"
        /\ (pc = "summary" => ENABLED Summary)
        /\ (pc = "done" => out # <<>> /\ out[Len(out)] = "Done")

\* a run whose compiler failed and left no bundle printed the summary
C2_Witness ==
    /\ pc = "done"
    /\ exit_code # 0
    /\ bundle = NoBundle
    /\ Printed("Done")

\* C3: a failure in model load, vocabulary export, graph export, format
\* conversion or package save ends the run at that step: exactly the steps
\* before it completed, no step can run any more, the compiler was not invoked
\* and "Done" was not printed.
C3_EarlyFailureFatal ==
    failedAt \in {"load", "export_vocab", "export_graph", "convert", "save"} =>
        /\ pc = "aborted"
        /\ ~ENABLED AnyStep
        /\ IsPrefix(steps, StepOrder)
        /\ StepOrder[Len(steps) + 1] = failedAt
        /\ compilerCalls = 0
        /\ ~Printed("Done")
        /\ ~Printed("Compiled model saved")
        /\ ~Printed("Auto-compilation skipped")

\* the format conversion raised after the three steps before it completed
C3_Witness ==
    /\ failedAt = "convert"
    /\ pc = "aborted"
    /\ steps = <<"load", "export_vocab", "export_graph">>

C5_ExportDeterministic ==
    (Completed("export_vocab") /\ prevExport # NoFile) => vocabFile = prevExport

\* two exporting runs saw the mapping in different orders
C5_Witness ==
    /\ Completed("export_vocab")
    /\ prevExport # NoFile
    /\ prevItems # items
    /\ Cardinality(DOMAIN vocab) = MaxVocab

\* C6: after conversion the model declares input_ids and attention_mask with
\* shape [1, 128] and an integer type, its output has 384 components, and the
\* dummy inputs the graph was traced with, the declared inputs and the
\* position_ids buffer all have the sequence length MAX_SEQ_LENGTH.
C6_FixedShapes ==
    Completed("convert") =>
        /\ Len(mlmodel.inputs) = 2
        /\ mlmodel.inputs[1].name = "input_ids"
        /\ mlmodel.inputs[2].name = "attention_mask"
        /\ \A i \in 1..2 :
              /\ mlmodel.inputs[i].shape = <<1, 128>>
              /\ mlmodel.inputs[i].dtype = "int32"
              /\ graph.inputs[i] = [shape |-> mlmodel.inputs[i].shape,
                                    dtype |-> mlmodel.inputs[i].dtype]
              /\ graph.inputs[i].shape[2] = MAX_SEQ_LENGTH
        /\ Len(mlmodel.outputs) = 1
        /\ mlmodel.outputs[1].shape = <<1, 384>>
        /\ wrapped.position_ids = <<1, MAX_SEQ_LENGTH>>
        /\ graph.position_ids = wrapped.position_ids

\* a run converted the traced graph
C6_Witness ==
    /\ Completed("convert")
    /\ mlmodel # NoMLModel
    /\ graph # NoGraph

\* squared norm of the pooled vector is at least eps squared
PooledAtLeastEps == SumTo([j \in DOMAIN fwd.pooled |-> fwd.pooled[j] * fwd.pooled[j]],
                          Len(fwd.pooled)) >= EPS * EPS * fwd.den * fwd.den

\* C7 as stated: for every input the embedding forward returns has L2 norm 1.
C7_UnitNormForEveryInput ==
    fwd.called => fwd.normSq[1] = fwd.normSq[2]

\* C7 as amended: the embedding forward returns has L2 norm 1 exactly when the
\* pooled vector's norm is at least eps; below that its norm is less than 1,
\* and it is the zero vector when the attention mask is all zeros.
C7_UnitNormUnlessPooledBelowEps ==
    fwd.called =>
        /\ (PooledAtLeastEps => fwd.normSq[1] = fwd.normSq[2])
        /\ (~PooledAtLeastEps => fwd.normSq[1] < fwd.normSq[2])
        /\ ((\A i \in DOMAIN attention_mask : attention_mask[i] = 0) => fwd.normSq[1] = 0)

\* a partly masked input whose pooled vector is not of unit length is normalised
C7_Witness ==
    /\ fwd.called
    /\ \E i, j \in DOMAIN attention_mask : attention_mask[i] = 0 /\ attention_mask[j] = 1
    /\ PooledAtLeastEps
    /\ NormSq([num |-> fwd.pooled, den |-> fwd.den])[1] # NormSq([num |-> fwd.pooled, den |-> fwd.den])[2]
    /\ fwd.normSq[1] = fwd.normSq[2]

\* the steps completed are an initial part of the fixed order, the compiler is
\* invoked at most once and only after this run saved the package
C8_Order ==
    /\ IsPrefix(steps, StepOrder)
    /\ compilerCalls <= 1
    /\ (compilerCalls >= 1 => Completed("save") /\ mlpackage = run)
    /\ (Completed("compile") <=> compilerCalls = 1)

\* C8 as stated: fixed order, each step at most once, and the compiler is
\* invoked exactly once in a run that saves the package, never before the save.
C8_CompilerOncePerSavingRun ==
    /\ C8_Order
    /\ ((pc \in {"done", "aborted"} /\ Completed("save")) => compilerCalls = 1)

\* C8 as amended: the same, except that a run that saves the package and then
\* fails to remove a stale bundle ends without invoking the compiler.
C8_CompilerOnceUnlessRmtreeFails ==
    /\ C8_Order
    /\ ((pc \in {"done", "aborted"} /\ Completed("save"))
            => compilerCalls = (IF failedAt = "rmtree" THEN 0 ELSE 1))

\* a run went through every step in order and invoked the compiler once
C8_Witness ==
    /\ pc = "done"
    /\ steps = StepOrder
    /\ compilerCalls = 1

\* C9: once the compile step has completed exactly one outcome message has been
\* printed, and it is the fallback instruction exactly when the exit code is
\* non-zero or the bundle directory does not exist.
C9_OneOutcomeMessage ==
    Completed("compile") =>
        /\ Cardinality({i \in DOMAIN out :
                           out[i] \in {"Compiled model saved", "Auto-compilation skipped"}}) = 1
        /\ (Printed("Auto-compilation skipped") <=> (exit_code # 0 \/ bundle = NoBundle))
        /\ (Printed("Compiled model saved") <=> (exit_code = 0 /\ bundle # NoBundle))

\* the compiler returned 0 but left no bundle: the fallback is printed
C9_Witness ==
    /\ Completed("compile")
    /\ exit_code = 0
    /\ bundle = NoBundle
    /\ Printed("Auto-compilation skipped")

\* C10: in a run that printed the summary, the summary names the compiled bundle
\* exactly when the success message was printed, names the package whenever the
\* fallback was printed, and never names a bundle an earlier run left.
C10_SummaryMatchesOutcome ==
    pc = "done" =>
        /\ (recommended = compiled_path <=> Printed("Compiled model saved"))
        /\ (Printed("Auto-compilation skipped") => recommended = mlpackage_path)
        /\ (recommended = compiled_path => bundle = run)

====
